---- MODULE Spec2Model ----
(***************************************************************************)
(* Model of kai (src/main.rs, src/data_loader.rs): counting of reads that  *)
(* overlap regions of interest, in bulk or single-cell mode, and the       *)
(* serialisation of the count tables.                                      *)
(*                                                                         *)
(* Strings are sequences of one-character strings, so that format!, split, *)
(* trim and the lexicographic order of sorted() are computed, not assumed. *)
(***************************************************************************)
EXTENDS Integers, Sequences, FiniteSets, TLC

VARIABLES mode, max_loci, cell_barcode_file, cell_barcodes_of_interest,
          pc, region, region_counter, rec_counter,
          region_counts, region_totals, cell_barcodes,
          out, cur, prev

vars == <<mode, max_loci, cell_barcode_file, cell_barcodes_of_interest,
          pc, region, region_counter, rec_counter,
          region_counts, region_totals, cell_barcodes,
          out, cur, prev>>

(***************************************************************************)
(* Bounds of the model.                                                    *)
(***************************************************************************)
\* number of regions of the BED file that are processed
MaxRegions == 2
\* number of records the fetches of one run return in total
MaxReads == 2

(***************************************************************************)
(* Strings.                                                                *)
(***************************************************************************)
\* the characters used, in ASCII order
Ascii == <<" ", "-", "0", "1", "2", "3", "4", "5", "6", "7", "8", "9", ":", "A", "C", "G", "c", "x">>

CharOrd(ch) == CHOOSE i \in 1..Len(Ascii) : Ascii[i] = ch

Min(a, b) == IF a < b THEN a ELSE b

\* Ord for String: bytewise lexicographic
StrLess(s, t) ==
    \E k \in 0..Min(Len(s), Len(t)) :
        /\ \A i \in 1..k : s[i] = t[i]
        /\ \/ k = Len(s) /\ k < Len(t)
           \/ k < Len(s) /\ k < Len(t) /\ CharOrd(s[k + 1]) < CharOrd(t[k + 1])

\* itertools sorted() over a set of distinct strings
Sorted(S) ==
    [i \in 1..Cardinality(S) |->
        CHOOSE x \in S : Cardinality({y \in S : StrLess(y, x)}) = i - 1]

Digits == <<"0", "1", "2", "3", "4", "5", "6", "7", "8", "9">>

RECURSIVE to_string(_)
\* Display of an unsigned integer
to_string(n) ==
    IF n < 10 THEN <<Digits[n + 1]>>
    ELSE to_string(n \div 10) \o <<Digits[(n % 10) + 1]>>

RECURSIVE Split(_)
\* str::split([':', '-'])
Split(s) ==
    IF \A i \in 1..Len(s) : s[i] \notin {":", "-"} THEN <<s>>
    ELSE LET k == CHOOSE i \in 1..Len(s) :
                      /\ s[i] \in {":", "-"}
                      /\ \A j \in 1..(i - 1) : s[j] \notin {":", "-"}
         IN  <<SubSeq(s, 1, k - 1)>> \o Split(SubSeq(s, k + 1, Len(s)))

RECURSIVE Trim(_)
\* str::trim
Trim(s) ==
    IF s = <<>> THEN s
    ELSE IF s[1] = " " THEN Trim(Tail(s))
    ELSE IF s[Len(s)] = " " THEN Trim(SubSeq(s, 1, Len(s) - 1))
    ELSE s

(***************************************************************************)
(* Inputs.                                                                 *)
(***************************************************************************)
Modes == {"bulk", "single"}

\* values of --max-loci (u32); 256 and above do not fit in a u8
MaxLociValues == {1, 256}

NoFile == [given |-> FALSE, lines |-> <<>>]

\* the -c option: absent, an empty file, a file with one barcode
BarcodeFiles ==
    { NoFile,
      [given |-> TRUE, lines |-> <<>>],
      [given |-> TRUE, lines |-> << <<" ", "A">> >>] }

\* struct Region
Region(ch, s, e) == [chromosome |-> ch, start |-> s, end |-> e]

\* the regions of the BED file
Regions ==
    { Region(<<"c">>, 0, 2), Region(<<"c">>, 2, 4), Region(<<"c">>, 4, 10),
      Region(<<"c", "-", "x">>, 0, 2) }

NoRegion == [chromosome |-> <<>>, start |-> 0, end |-> 0]

MatchLike == {"Match", "Equal", "Diff"}

Op(o, l) == [op |-> o, len |-> l]

\* CIGAR strings of the records of the BAM file
Cigars ==
    { << Op("Match", 2) >>,
      << Op("Equal", 2), Op("Diff", 2) >>,
      << Op("Match", 2), Op("RefSkip", 2), Op("Match", 2) >>,
      << Op("SoftClip", 1), Op("Match", 2) >>,
      << Op("Match", 2), Op("Ins", 1), Op("Match", 2) >> }

Positions == {0}

AbsentTag == [type |-> "Absent", val |-> 0]

\* the NH tag: absent, or an integer stored with the given width
NHTags == { AbsentTag, [type |-> "U8", val |-> 1], [type |-> "U8", val |-> 2],
            [type |-> "U16", val |-> 300] }

AbsentCB == [type |-> "Absent", val |-> <<>>]

\* the CB tag: absent, or a string
CBTags == { AbsentCB, [type |-> "String", val |-> <<"A">>],
            [type |-> "String", val |-> <<"C">>] }

Records ==
    [pos : Positions, cigar : Cigars, nh : NHTags, cb : CBTags]

NoRecord == [pos |-> 0, cigar |-> <<>>, nh |-> AbsentTag, cb |-> AbsentCB]

RECURSIVE RefLen(_)
\* reference bases covered by an alignment (M, D, N, =, X)
RefLen(cigars) ==
    IF cigars = <<>> THEN 0
    ELSE (IF Head(cigars).op \in MatchLike \cup {"Del", "RefSkip"}
          THEN Head(cigars).len ELSE 0) + RefLen(Tail(cigars))

\* bam.fetch + bam.records(): the records whose alignment span meets the region
Fetched(record, r) ==
    /\ record.pos < r.end
    /\ record.pos + (IF RefLen(record.cigar) = 0 THEN 1 ELSE RefLen(record.cigar)) > r.start

(***************************************************************************)
(* data_loader::load_cell_barcodes                                         *)
(***************************************************************************)
load_cell_barcodes(file_path) ==
    IF file_path.given
    THEN { Trim(file_path.lines[i]) : i \in 1..Len(file_path.lines) }
    ELSE {}

(***************************************************************************)
(* Helpers of the counting loop (main.rs, lines 152-232).                  *)
(***************************************************************************)
\* format!("{}:{}-{}", region.chromosome, region.start, region.end)
region_key_of(r) ==
    r.chromosome \o <<":">> \o to_string(r.start) \o <<"-">> \o to_string(r.end)

\* if let Ok(Aux::U8(nh)) = record.aux(b"NH") { if nh > max_loci as u8 { continue } }
NHSkip(record, maxloci) ==
    /\ record.nh.type = "U8"
    /\ record.nh.val > maxloci % 256

\* CellBarcode with a missing CB tag read as the empty barcode
CellBarcodeDefault(record, m) ==
    IF m = "single" THEN <<record.cb.val>> ELSE <<>>

\* the Option<String> cell_barcode: <<>> is None, <<cb>> is Some(cb)
CellBarcode(record, m) ==
    IF m = "single" /\ record.cb.type = "String" THEN <<record.cb.val>> ELSE <<>>

\* AllowlistSkip with the membership test inverted
AllowlistSkipInverted(cb, file, interest) ==
    /\ file.given
    /\ interest # {}
    /\ cb \in interest

\* the barcode is not in the list of interest
AllowlistSkip(cb, file, interest) ==
    /\ file.given
    /\ interest # {}
    /\ cb \notin interest

\* InsertBarcode with the insertion lost
InsertBarcodeLost(barcodes, cb) == barcodes

\* cell_barcodes.insert(cb.clone())
InsertBarcode(barcodes, cb) == barcodes \cup {cb}

\* current_pos += match cigar { Ins(l) | Del(l) | RefSkip(l) => l, _ => 0 }
Advance(cigar) ==
    IF cigar.op \in {"Ins", "Del", "RefSkip"} THEN cigar.len ELSE 0

RECURSIVE Walk(_, _, _, _)
\* the loop over the CIGAR operations from index i with the cursor at
\* current_pos: TRUE iff it reaches the increment and the break
Walk(cigars, i, current_pos, r) ==
    IF i > Len(cigars) THEN FALSE
    ELSE LET cigar == cigars[i] IN
         IF cigar.op \in MatchLike
         THEN LET cigar_end == current_pos + cigar.len IN
              IF current_pos < r.end /\ cigar_end > r.start
              THEN TRUE
              ELSE Walk(cigars, i + 1, current_pos, r)
         ELSE IF cigar.op = "SoftClip"
         THEN Walk(cigars, i + 1, current_pos, r)
         ELSE Walk(cigars, i + 1, current_pos + Advance(cigar), r)

\* *map.entry(key).or_insert(0) += 1
Increment(map, key) ==
    LET m0 == IF key \in DOMAIN map THEN map ELSE map @@ (key :> 0)
    IN  [m0 EXCEPT ![key] = @ + 1]

\* *region_counts.entry(key).or_insert_with(HashMap::new).entry(cb).or_insert(0) += 1
IncrementCell(counts, key, cb) ==
    LET c0 == IF key \in DOMAIN counts THEN counts ELSE counts @@ (key :> <<>>)
    IN  [c0 EXCEPT ![key] = Increment(@, cb)]

EmptyOut ==
    [barcodes |-> <<>>, features |-> <<>>, matrix_dims |-> <<>>,
     matrix_entries |-> <<>>, tsv_rows |-> <<>>, bulk_header |-> <<>>, bulk_rows |-> <<>>]

Tables == [totals |-> region_totals, counts |-> region_counts, barcodes |-> cell_barcodes]

NoTables == [totals |-> <<>>, counts |-> <<>>, barcodes |-> {}]

(***************************************************************************)
(* The program.                                                            *)
(***************************************************************************)
Init ==
    /\ mode \in Modes
    /\ max_loci \in MaxLociValues
    /\ cell_barcode_file \in IF mode = "single" THEN BarcodeFiles ELSE {NoFile}
    /\ cell_barcodes_of_interest =
           IF mode = "single" THEN load_cell_barcodes(cell_barcode_file) ELSE {}
    /\ pc = "regions"
    /\ region = NoRegion
    /\ region_counter = 0
    /\ rec_counter = 0
    /\ region_counts = <<>>
    /\ region_totals = <<>>
    /\ cell_barcodes = {}
    /\ out = EmptyOut
    /\ cur = NoRecord
    /\ prev = NoTables

\* for region in &regions: the next region of the list, and its fetch
NextRegion(r) ==
    /\ pc = "regions"
    /\ region_counter < MaxRegions
    /\ region' = r
    /\ region_counter' = region_counter + 1
    /\ pc' = "records"
    /\ cur' = NoRecord
    /\ prev' = NoTables
    /\ UNCHANGED <<mode, max_loci, cell_barcode_file, cell_barcodes_of_interest,
                   rec_counter, region_counts, region_totals, cell_barcodes, out>>

\* for result in bam.records(): the whole body of the loop for one record
ProcessRecord(record) ==
    /\ pc = "records"
    /\ rec_counter < MaxReads
    /\ Fetched(record, region)
    /\ rec_counter' = rec_counter + 1
    /\ cur' = record
    /\ prev' = Tables
    /\ LET cell_barcode == CellBarcode(record, mode)
           region_key == region_key_of(region)
       IN  IF NHSkip(record, max_loci)
           THEN UNCHANGED <<region_counts, region_totals, cell_barcodes>>
           ELSE IF /\ cell_barcode # <<>>
                   /\ AllowlistSkip(cell_barcode[1], cell_barcode_file, cell_barcodes_of_interest)
           THEN UNCHANGED <<region_counts, region_totals, cell_barcodes>>
           ELSE /\ cell_barcodes' =
                       IF cell_barcode # <<>>
                       THEN InsertBarcode(cell_barcodes, cell_barcode[1])
                       ELSE cell_barcodes
                /\ IF Walk(record.cigar, 1, record.pos, region)
                   THEN IF mode = "single"
                        THEN /\ region_counts' =
                                    IF cell_barcode # <<>>
                                    THEN IncrementCell(region_counts, region_key, cell_barcode[1])
                                    ELSE region_counts
                             /\ UNCHANGED region_totals
                        ELSE /\ region_totals' = Increment(region_totals, region_key)
                             /\ UNCHANGED region_counts
                   ELSE UNCHANGED <<region_counts, region_totals>>
    /\ UNCHANGED <<mode, max_loci, cell_barcode_file, cell_barcodes_of_interest,
                   pc, region, region_counter, out>>

\* bam.records() is exhausted
EndRecords ==
    /\ pc = "records"
    /\ pc' = "regions"
    /\ cur' = NoRecord
    /\ prev' = NoTables
    /\ UNCHANGED <<mode, max_loci, cell_barcode_file, cell_barcodes_of_interest,
                   region, region_counter, rec_counter,
                   region_counts, region_totals, cell_barcodes, out>>

(***************************************************************************)
(* Writing the output files (main.rs, lines 234-302).                      *)
(***************************************************************************)
\* the orders in which a HashMap may iterate over the keys in S
IterationOrders(S) ==
    { p \in [1..Cardinality(S) -> S] : \A i, j \in DOMAIN p : p[i] = p[j] => i = j }

\* one iteration order for each of the inner maps of region_counts
HashOrders(counts) ==
    { o \in [DOMAIN counts -> UNION {IterationOrders(DOMAIN counts[f]) : f \in DOMAIN counts}] :
        \A f \in DOMAIN counts : o[f] \in IterationOrders(DOMAIN counts[f]) }

\* barcode_list.iter().enumerate().map(|(i, b)| (b.as_str(), i + 1))
barcode_map_of(barcode_list) ==
    [b \in {barcode_list[k] : k \in 1..Len(barcode_list)} |->
        (CHOOSE k \in 1..Len(barcode_list) : barcode_list[k] = b) - 1 + 1]

RECURSIVE CellLines(_, _, _, _, _)
\* for (barcode, count) in cell_counts, in the order iter, for the feature
\* with the 0-based index i: the matrix line and the line of the long table
CellLines(i, feature, cell_counts, iter, barcode_map) ==
    IF iter = <<>> THEN <<>>
    ELSE LET barcode == Head(iter)
             count == cell_counts[barcode]
             rest == CellLines(i, feature, cell_counts, Tail(iter), barcode_map)
         IN  IF barcode \in DOMAIN barcode_map
             THEN << [matrix |-> <<to_string(i + 1), to_string(barcode_map[barcode] + 1),
                                   to_string(count)>>,
                      tsv |-> <<feature, barcode, to_string(count)>>] >> \o rest
             ELSE rest

RECURSIVE FeatureLines(_, _, _, _, _)
\* for (i, feature) in feature_list.iter().enumerate(), from the index i on
FeatureLines(i, feature_list, counts, order, barcode_map) ==
    IF i >= Len(feature_list) THEN <<>>
    ELSE LET feature == feature_list[i + 1]
         IN  CellLines(i, feature, counts[feature], order[feature], barcode_map)
                 \o FeatureLines(i + 1, feature_list, counts, order, barcode_map)

RECURSIVE SumLens(_, _)
\* region_counts.values().map(|c| c.len()).sum()
SumLens(counts, keys) ==
    IF keys = {} THEN 0
    ELSE LET k == CHOOSE x \in keys : TRUE
         IN  Cardinality(DOMAIN counts[k]) + SumLens(counts, keys \ {k})

\* mode == "single": the four files
WriteSingle(order) ==
    /\ pc = "regions"
    /\ mode = "single"
    /\ LET barcode_list == Sorted(cell_barcodes)
           feature_list == Sorted(DOMAIN region_counts)
           barcode_map == barcode_map_of(barcode_list)
           lines == FeatureLines(0, feature_list, region_counts, order, barcode_map)
       IN  out' = [EmptyOut EXCEPT
                     !.barcodes = barcode_list,
                     !.features = feature_list,
                     !.matrix_dims = <<to_string(Len(feature_list)),
                                       to_string(Len(barcode_list)),
                                       to_string(SumLens(region_counts, DOMAIN region_counts))>>,
                     !.matrix_entries = [k \in 1..Len(lines) |-> lines[k].matrix],
                     !.tsv_rows = [k \in 1..Len(lines) |-> lines[k].tsv]]
    /\ pc' = "done"
    /\ cur' = NoRecord
    /\ prev' = NoTables
    /\ UNCHANGED <<mode, max_loci, cell_barcode_file, cell_barcodes_of_interest,
                   region, region_counter, rec_counter,
                   region_counts, region_totals, cell_barcodes>>

\* writeln!(output_file, "{}\t{}\t{}\t{}", fields[0], fields[1], fields[2], count)
BulkRow(key, count) ==
    LET fields == Split(key)
    IN  <<fields[1], fields[2], fields[3], to_string(count)>>

\* the other mode: the flat table
WriteBulk ==
    /\ pc = "regions"
    /\ mode # "single"
    /\ LET keys == Sorted(DOMAIN region_totals)
       IN  out' = [EmptyOut EXCEPT
                     !.bulk_header = <<"Chr", "Start", "End", "Region", "Count">>,
                     !.bulk_rows = [k \in 1..Len(keys) |-> BulkRow(keys[k], region_totals[keys[k]])]]
    /\ pc' = "done"
    /\ cur' = NoRecord
    /\ prev' = NoTables
    /\ UNCHANGED <<mode, max_loci, cell_barcode_file, cell_barcodes_of_interest,
                   region, region_counter, rec_counter,
                   region_counts, region_totals, cell_barcodes>>

Next ==
    \/ \E r \in Regions : NextRegion(r)
    \/ \E record \in Records : ProcessRecord(record)
    \/ EndRecords
    \/ \E order \in HashOrders(region_counts) : WriteSingle(order)
    \/ WriteBulk

Spec == Init /\ [][Next]_vars

(***************************************************************************)
(* Vocabulary of the properties.  cur is the record the last step          *)
(* processed for region (NoRecord after any other step) and prev holds the *)
(* tables as they were before that step.                                   *)
(***************************************************************************)
Acted == cur # NoRecord

Key == region_key_of(region)

CountOf(map, key) == IF key \in DOMAIN map THEN map[key] ELSE 0

CellOf(counts, key, cb) ==
    IF key \in DOMAIN counts /\ cb \in DOMAIN counts[key] THEN counts[key][cb] ELSE 0

RECURSIVE SumOver(_, _)
SumOver(map, keys) ==
    IF keys = {} THEN 0
    ELSE LET k == CHOOSE x \in keys : TRUE
         IN  map[k] + SumOver(map, keys \ {k})

\* the sum of the counts the single-mode table holds for one region
RowSum(counts, key) ==
    IF key \in DOMAIN counts THEN SumOver(counts[key], DOMAIN counts[key]) ELSE 0

\* by how much the last step raised the count of its region
RegionDelta ==
    IF mode = "single"
    THEN RowSum(region_counts, Key) - RowSum(prev.counts, Key)
    ELSE CountOf(region_totals, Key) - CountOf(prev.totals, Key)

TablesUnchanged ==
    /\ region_counts = prev.counts
    /\ region_totals = prev.totals
    /\ cell_barcodes = prev.barcodes

AllowlistActive == cell_barcode_file.given /\ cell_barcodes_of_interest # {}

\* the reference cursor at operation i: ref_start plus the lengths of all
\* preceding match-like, insertion, deletion and reference-skip operations
RECURSIVE CursorAt(_, _)
CursorAt(record, i) ==
    IF i = 1 THEN record.pos
    ELSE CursorAt(record, i - 1)
             + (IF record.cigar[i - 1].op \in MatchLike \cup {"Ins", "Del", "RefSkip"}
                THEN record.cigar[i - 1].len ELSE 0)

\* the match-like blocks of the record that overlap [start, end)
OverlappingBlocks(record, r) ==
    { i \in 1..Len(record.cigar) :
        /\ record.cigar[i].op \in MatchLike
        /\ CursorAt(record, i) < r.end
        /\ CursorAt(record, i) + record.cigar[i].len > r.start }

BlockOverlaps(record, r) == OverlappingBlocks(record, r) # {}

\* the locus filter as documented: a locus count above max_loci is rejected
LocusOk(record) == record.nh.type = "Absent" \/ record.nh.val <= max_loci

\* the record passes the filters of its mode
PassesFilters(record) ==
    /\ LocusOk(record)
    /\ mode = "single" =>
          /\ record.cb.type = "String"
          /\ ~(AllowlistActive /\ record.cb.val \notin cell_barcodes_of_interest)

\* the last step reached the CIGAR walk of the program
WalkHit == Walk(cur.cigar, 1, cur.pos, region)

(***************************************************************************)
(* C1: a record that passed the filters is counted for the region if and   *)
(* only if one of its match-like blocks spans [c, c + length) with c < end *)
(* and c + length > start, c being ref_start plus the lengths of all       *)
(* preceding match-like and reference-consuming-gap operations.            *)
(***************************************************************************)
C1_OverlapIffBlock ==
    (Acted /\ ~NHSkip(cur, max_loci) /\ mode = "bulk")
        => (RegionDelta = 1 <=> BlockOverlaps(cur, region))

(***************************************************************************)
(* C2: processing a record for a region raises the region's count by at    *)
(* most 1, and by exactly 1 when the record passes the filters and at      *)
(* least one of its match-like blocks overlaps the region, however many    *)
(* of them do.                                                             *)
(***************************************************************************)
C2_ExactlyOnce ==
    Acted =>
        /\ RegionDelta \in {0, 1}
        /\ (PassesFilters(cur) /\ BlockOverlaps(cur, region)) => RegionDelta = 1

\* the part of C2 the early exit of the walk guarantees
C2_AtMostOnce == Acted => RegionDelta \in {0, 1}

(***************************************************************************)
(* C3: a record with the locus-count tag n is rejected if and only if      *)
(* n > max_loci: with n > max_loci it changes no count, and in bulk mode   *)
(* with n <= max_loci it is counted for the region when the walk reports   *)
(* an overlap.                                                             *)
(***************************************************************************)
C3_LocusFilter ==
    (Acted /\ cur.nh.type # "Absent") =>
        /\ cur.nh.val > max_loci => TablesUnchanged
        /\ (cur.nh.val <= max_loci /\ mode = "bulk" /\ WalkHit) => RegionDelta = 1

(***************************************************************************)
(* C4: in single mode with a supplied, non-empty allowlist, a record whose *)
(* barcode is not in the allowlist changes no count, but its barcode is    *)
(* registered in the observed-barcode set.                                 *)
(***************************************************************************)
OffListRecord ==
    /\ Acted
    /\ mode = "single"
    /\ AllowlistActive
    /\ cur.cb.type = "String"
    /\ cur.cb.val \notin cell_barcodes_of_interest
    /\ ~NHSkip(cur, max_loci)

C4_StillRegistered ==
    OffListRecord =>
        /\ region_counts = prev.counts
        /\ region_totals = prev.totals
        /\ cur.cb.val \in cell_barcodes

(***************************************************************************)
(* C4 as amended: in single mode with a supplied, non-empty allowlist, a   *)
(* record whose barcode is not in the allowlist changes no count and its   *)
(* barcode is not registered: the observed-barcode set, and the barcode    *)
(* index written from it, hold barcodes of the allowlist only.             *)
(***************************************************************************)
C4_NotRegistered ==
    /\ OffListRecord =>
          /\ TablesUnchanged
          /\ cur.cb.val \notin cell_barcodes
    /\ (mode = "single" /\ AllowlistActive) =>
          /\ cell_barcodes \subseteq cell_barcodes_of_interest
          /\ \A k \in 1..Len(out.barcodes) : out.barcodes[k] \in cell_barcodes_of_interest

\* such a record has been processed, one of its blocks overlapping the region
C4_Witness ==
    /\ OffListRecord
    /\ WalkHit
    /\ BlockOverlaps(cur, region)
    /\ prev.barcodes # {}

(***************************************************************************)
(* C5: every entry line of the sparse matrix uses as row the 1-based line  *)
(* number of its feature in the feature index and as column the 1-based    *)
(* line number of its barcode in the barcode index, so that the column     *)
(* never exceeds the num_barcodes field of the dimensions line.            *)
(***************************************************************************)
C5_OneBasedIndices ==
    (pc = "done" /\ mode = "single") =>
        \A k \in 1..Len(out.matrix_entries) :
            \E i \in 1..Len(out.features), j \in 1..Len(out.barcodes) :
                /\ out.features[i] = out.tsv_rows[k][1]
                /\ out.barcodes[j] = out.tsv_rows[k][2]
                /\ out.matrix_entries[k][1] = to_string(i)
                /\ out.matrix_entries[k][2] = to_string(j)
                /\ out.matrix_dims[2] = to_string(Len(out.barcodes))

(***************************************************************************)
(* C6: in single mode a record with no barcode tag changes no count of any *)
(* region and is not added to the observed-barcode set, even when one of   *)
(* its match-like blocks overlaps the region and it passes the locus       *)
(* filter.                                                                 *)
(***************************************************************************)
C6_NoBarcodeNoEffect ==
    (Acted /\ mode = "single" /\ cur.cb.type = "Absent") => TablesUnchanged

\* a record with no barcode passed the locus filter and overlaps the region
C6_Witness ==
    /\ Acted
    /\ mode = "single"
    /\ cur.cb.type = "Absent"
    /\ ~NHSkip(cur, max_loci)
    /\ LocusOk(cur)
    /\ WalkHit
    /\ BlockOverlaps(cur, region)
    /\ prev.counts # <<>>

(***************************************************************************)
(* C7: the entries of the sparse matrix and of the long-form count table   *)
(* are listed with the features in sorted order and, within each feature,  *)
(* its barcodes in sorted order.                                           *)
(***************************************************************************)
C7_SortedEntries ==
    (pc = "done" /\ mode = "single") =>
        \A k, l \in 1..Len(out.tsv_rows) :
            k < l =>
                \/ StrLess(out.tsv_rows[k][1], out.tsv_rows[l][1])
                \/ /\ out.tsv_rows[k][1] = out.tsv_rows[l][1]
                   /\ StrLess(out.tsv_rows[k][2], out.tsv_rows[l][2])

(***************************************************************************)
(* C8: in bulk mode the row of every region that received a count has the  *)
(* five fields chromosome, start, end, region key, count of the header,    *)
(* the first three being the chromosome, start and end of that region.     *)
(***************************************************************************)
C8_BulkRowFields ==
    (pc = "done" /\ mode = "bulk") =>
        \A r \in Regions :
            region_key_of(r) \in DOMAIN region_totals =>
                \E k \in 1..Len(out.bulk_rows) :
                    /\ Len(out.bulk_rows[k]) = Len(out.bulk_header)
                    /\ out.bulk_rows[k] =
                           <<r.chromosome, to_string(r.start), to_string(r.end),
                             region_key_of(r), to_string(region_totals[region_key_of(r)])>>

(***************************************************************************)
(* C9: in single mode every barcode stored in the count table is in the    *)
(* observed-barcode set and no stored count is 0, so the third field of    *)
(* the dimensions line equals the number of entry lines written after it,  *)
(* one for each (feature, barcode) pair with a positive count.             *)
(***************************************************************************)
PositivePairs ==
    { <<f, b>> \in (DOMAIN region_counts) \X cell_barcodes :
        CellOf(region_counts, f, b) > 0 }

StoredPairs ==
    UNION { { <<f, b>> : b \in DOMAIN region_counts[f] } : f \in DOMAIN region_counts }

C9_DimsMatchEntries ==
    /\ \A f \in DOMAIN region_counts :
          \A b \in DOMAIN region_counts[f] :
              b \in cell_barcodes /\ region_counts[f][b] > 0
    /\ (pc = "done" /\ mode = "single") =>
          /\ out.matrix_dims[3] = to_string(Len(out.matrix_entries))
          /\ Len(out.matrix_entries) = Cardinality(StoredPairs)
          /\ StoredPairs = PositivePairs
          /\ { <<out.tsv_rows[k][1], out.tsv_rows[k][2]>> : k \in 1..Len(out.tsv_rows) }
                 = StoredPairs

\* the files were written from a table with several entries
C9_Witness ==
    /\ pc = "done"
    /\ mode = "single"
    /\ Len(out.matrix_entries) >= 2
    /\ Len(out.barcodes) >= 2

(***************************************************************************)
(* C10: processing a record for region R changes at most the entry of R    *)
(* (bulk) or of R and the record's barcode (single) and the observed-      *)
(* barcode set; every other count is unchanged, and a record that passes   *)
(* the filters adds exactly 1 to the entry of each region one of its       *)
(* blocks overlaps.                                                        *)
(***************************************************************************)
OtherEntriesUnchanged ==
    /\ \A key \in (DOMAIN region_totals) \cup (DOMAIN prev.totals) :
          key # Key => CountOf(region_totals, key) = CountOf(prev.totals, key)
    /\ \A key \in (DOMAIN region_counts) \cup (DOMAIN prev.counts) :
          \A b \in cell_barcodes \cup prev.barcodes :
              (key # Key \/ cur.cb.type = "Absent" \/ b # cur.cb.val)
                  => CellOf(region_counts, key, b) = CellOf(prev.counts, key, b)
    /\ mode = "bulk" => region_counts = prev.counts /\ cell_barcodes = prev.barcodes
    /\ mode = "single" => region_totals = prev.totals
    /\ prev.barcodes \subseteq cell_barcodes
    /\ \A b \in cell_barcodes \ prev.barcodes : cur.cb.type = "String" /\ b = cur.cb.val

C10_FrameAndOnePerRegion ==
    Acted =>
        /\ OtherEntriesUnchanged
        /\ (PassesFilters(cur) /\ BlockOverlaps(cur, region)) =>
              IF mode = "single"
              THEN CellOf(region_counts, Key, cur.cb.val)
                       = CellOf(prev.counts, Key, cur.cb.val) + 1
              ELSE CountOf(region_totals, Key) = CountOf(prev.totals, Key) + 1

\* the frame part of C10
C10_FrameOnly == Acted => OtherEntriesUnchanged

====
